---- MODULE Spec2Model ----
(***************************************************************************)
(* Model of recipes/TIMIT/ASR/ASR_seq2seq_knowledge_distillation/          *)
(* experiment_teacher.py: the ASR training controller (compute_forward,    *)
(* compute_objectives, fit_batch, evaluate_batch, on_epoch_end) and the    *)
(* module-level script that drives it.                                     *)
(*                                                                         *)
(* Three specifications:                                                   *)
(*   Spec            one run of the script, from configuration loading to  *)
(*                   the report; the library's loops call the hooks        *)
(*   SpecHooks       the hooks called by an arbitrary caller, in any order *)
(*                   and with any stage tag                                *)
(*   SpecObjectives  compute_forward and compute_objectives applied to any *)
(*                   batch, stage tag, ctc_weight and network output       *)
(*                                                                         *)
(* Conventions.  A tensor of relative lengths is a tuple of fractions      *)
(* [num, den].  A loss is a float: [kind |-> "fin", v |-> n], or the       *)
(* IEEE specials PosInf and NaN.  ctc_weight w stands for w / WScale and a *)
(* returned loss is in units of 1 / WScale.  The outputs of the neural     *)
(* network, the cost functions and the decoders for a batch are the        *)
(* parameter "out" of the hooks.                                           *)
(***************************************************************************)
EXTENDS Integers, Sequences, FiniteSets, TLC

VARIABLES
    pc,         \* position of the script (module-level statements)
    phases,     \* the phases the script has entered, in order
    params,     \* the parameter bundle: ctc_weight, augmentation, epoch limit
    m,          \* the mutable state: weights, gradients, optimizer, scheduler,
                \* epoch counter, checkpoint directory, and the operations
                \* of the hook call in progress (ops)
    loop,       \* position of the library's loops (fit / evaluate)
    last        \* the last hook call: its arguments, operations and result

vars == <<pc, phases, params, m, loop, last>>

\* ------------------------------------------------------------------ bounds

NumEpochs == 3
MaxPrior == 3
MaxErrs == 1
MaxWidth == 2
MaxLoss == 1
WScale == 2
MaxCalls == 3

\* ------------------------------------------------------------- arithmetic

Max(S) == CHOOSE x \in S : \A y \in S : y <= x

\* torch.round(a / b) for a >= 0, b > 0: to nearest, halves to even
RoundDiv(a, b) ==
    LET q == a \div b
        r == a % b
    IN  IF 2 * r < b THEN q
        ELSE IF 2 * r > b THEN q + 1
        ELSE IF q % 2 = 0 THEN q ELSE q + 1

Fin(n) == [kind |-> "fin", v |-> n]

PosInf == [kind |-> "inf", v |-> 0]

NaN == [kind |-> "nan", v |-> 0]

Floats == {Fin(n) : n \in 0..MaxLoss} \cup {PosInf, NaN}

\* k * x, for a scalar k >= 0 and a nonnegative float x (0 * inf is NaN)
FMul(k, x) ==
    IF x.kind = "nan" THEN NaN
    ELSE IF x.kind = "inf" THEN (IF k = 0 THEN NaN ELSE PosInf)
    ELSE Fin(k * x.v)

\* x + y, for nonnegative floats
FAdd(x, y) ==
    IF x.kind = "nan" \/ y.kind = "nan" THEN NaN
    ELSE IF x.kind = "inf" \/ y.kind = "inf" THEN PosInf
    ELSE Fin(x.v + y.v)

\* ------------------------------------------------------------------ batches

Stages == {"train", "valid", "test"}

\* a caller may hand the hooks a stage tag outside the three
StageTags == Stages \cup {"dev"}

eos_index == "eos"

pad_index == "pad"

\* one padded label row: n labels, then padding up to width L
Row(n, L) == [j \in 1..L |-> IF j <= n THEN "phn" ELSE pad_index]

\* the label batch for sequences of lengths ns, padded to the longest
Batch(ns) ==
    LET L == Max({ns[i] : i \in DOMAIN ns})
    IN  [phns     |-> [i \in DOMAIN ns |-> Row(ns[i], L)],
         phn_lens |-> [i \in DOMAIN ns |-> [num |-> ns[i], den |-> L]],
         width    |-> L]

Batches ==
    {Batch(ns) : ns \in {t \in [1..2 -> 0..MaxWidth] : t[1] > 0 \/ t[2] > 0}}

\* what the network, the costs and the decoders produce for one batch
Outs == [loss_ctc : Floats, loss_seq : Floats, errs : 0..MaxErrs]

FiniteOuts == {o \in Outs : o.loss_ctc = Fin(1) /\ o.loss_seq = Fin(0)}

\* the data loaders of a run
train_set == <<Batch(<<1, 2>>), Batch(<<2, 2>>)>>

valid_set == <<Batch(<<2, 1>>), Batch(<<1, 1>>)>>

test_set == <<Batch(<<0, 1>>)>>

\* data_io.append_eos_token: one more column, eos written after the labels
append_eos_token(phns, length) ==
    [i \in DOMAIN phns |->
        [j \in 1..(Len(phns[i]) + 1) |->
            IF j = length[i] + 1 THEN eos_index
            ELSE IF j <= Len(phns[i]) THEN phns[i][j] ELSE pad_index]]

\* --------------------------------------------------------------- the hooks

Op(name) == [op |-> name]

Did(s, o) == [s EXCEPT !.ops = Append(@, o)]

\* variant: the two searchers exchanged
compute_forward_swapped(batch, stage, out) ==
    LET core == <<"p_ctc", "p_seq", "wav_lens">>
    IN  IF stage = "valid"
        THEN [predictions |-> Append(core, [by |-> "beam", errs |-> out.errs]),
              ops |-> <<Op("forward"), Op("beam_searcher")>>]
        ELSE IF stage = "test"
        THEN [predictions |-> Append(core, [by |-> "greedy", errs |-> out.errs]),
              ops |-> <<Op("forward"), Op("greedy_searcher")>>]
        ELSE [predictions |-> core, ops |-> <<Op("forward")>>]

\* variant: every stage but train and test decodes greedily
compute_forward_else_greedy(batch, stage, out) ==
    LET core == <<"p_ctc", "p_seq", "wav_lens">>
    IN  IF stage = "test"
        THEN [predictions |-> Append(core, [by |-> "beam", errs |-> out.errs]),
              ops |-> <<Op("forward"), Op("beam_searcher")>>]
        ELSE IF stage # "train"
        THEN [predictions |-> Append(core, [by |-> "greedy", errs |-> out.errs]),
              ops |-> <<Op("forward"), Op("greedy_searcher")>>]
        ELSE [predictions |-> core, ops |-> <<Op("forward")>>]

compute_forward(batch, stage, out) ==
    LET core == <<"p_ctc", "p_seq", "wav_lens">>
    IN  IF stage = "valid"
        THEN [predictions |-> Append(core, [by |-> "greedy", errs |-> out.errs]),
              ops |-> <<Op("forward"), Op("greedy_searcher")>>]
        ELSE IF stage = "test"
        THEN [predictions |-> Append(core, [by |-> "beam", errs |-> out.errs]),
              ops |-> <<Op("forward"), Op("beam_searcher")>>]
        ELSE [predictions |-> core, ops |-> <<Op("forward")>>]

\* the tuple assignment of line 106 or 108 succeeds
unpacks(predictions, stage) ==
    IF stage = "train" THEN Len(predictions) = 3 ELSE Len(predictions) = 4

abs_length(batch) ==
    [i \in DOMAIN batch.phn_lens |->
        RoundDiv(batch.phn_lens[i].num * batch.width, batch.phn_lens[i].den)]

rel_length(batch) ==
    [i \in DOMAIN batch.phn_lens |->
        [num |-> abs_length(batch)[i] + 1, den |-> batch.width]]

\* variant: the two weights exchanged
weighted_loss_swapped(w, loss_ctc, loss_seq) ==
    FAdd(FMul(WScale - w, loss_ctc), FMul(w, loss_seq))

weighted_loss(w, loss_ctc, loss_seq) ==
    FAdd(FMul(w, loss_ctc), FMul(WScale - w, loss_seq))

NoStats == [k \in {} |-> 0]

compute_objectives(w, predictions, batch, stage, out) ==
    IF ~unpacks(predictions, stage)
    THEN [ok |-> FALSE, ops |-> <<>>]
    ELSE [ok            |-> TRUE,
          phns_with_eos |-> append_eos_token(batch.phns, abs_length(batch)),
          length        |-> rel_length(batch),
          loss          |-> weighted_loss(w, out.loss_ctc, out.loss_seq),
          stats         |-> IF stage # "train"
                            THEN [k \in {"PER"} |-> predictions[4].errs]
                            ELSE NoStats,
          ops           |-> IF stage # "train"
                            THEN <<Op("objectives"), Op("wer_details")>>
                            ELSE <<Op("objectives")>>]

backward(s) == Did([s EXCEPT !.grad = @ + 1], Op("backward"))

optimizer_step(s) ==
    Did([s EXCEPT !.weights = IF s.grad > 0 THEN @ + 1 ELSE @,
                  !.opt_steps = @ + 1],
        Op("optimizer.step"))

zero_grad(s) == Did([s EXCEPT !.grad = 0], Op("zero_grad"))

\* a hook's outcome: whether it returned, the state after it, what it returned
Raised(s) == [ok |-> FALSE, m |-> s, stats |-> NoStats, obj |-> [ok |-> FALSE]]

\* variant: the gradients are not reset
fit_batch_no_zero_grad(s, w, batch, out) ==
    LET fwd == compute_forward(batch, "train", out)
        s1  == [s EXCEPT !.ops = fwd.ops]
        obj == compute_objectives(w, fwd.predictions, batch, "train", out)
        s2  == [s1 EXCEPT !.ops = @ \o obj.ops]
    IN  IF ~obj.ok THEN Raised(s2)
        ELSE [ok    |-> TRUE,
              m     |-> optimizer_step(backward(s2)),
              stats |-> obj.stats @@ [k \in {"loss"} |-> obj.loss],
              obj   |-> obj]

fit_batch(s, w, batch, out) ==
    LET fwd == compute_forward(batch, "train", out)
        s1  == [s EXCEPT !.ops = fwd.ops]
        obj == compute_objectives(w, fwd.predictions, batch, "train", out)
        s2  == [s1 EXCEPT !.ops = @ \o obj.ops]
    IN  IF ~obj.ok THEN Raised(s2)
        ELSE [ok    |-> TRUE,
              m     |-> zero_grad(optimizer_step(backward(s2))),
              stats |-> obj.stats @@ [k \in {"loss"} |-> obj.loss],
              obj   |-> obj]

\* variant: the evaluation also updates the parameters
evaluate_batch_updating(s, w, batch, stage, out) ==
    LET fwd == compute_forward(batch, stage, out)
        s1  == [s EXCEPT !.ops = fwd.ops]
        obj == compute_objectives(w, fwd.predictions, batch, stage, out)
        s2  == [s1 EXCEPT !.ops = @ \o obj.ops]
    IN  IF ~obj.ok THEN Raised(s2)
        ELSE [ok    |-> TRUE,
              m     |-> zero_grad(optimizer_step(backward(s2))),
              stats |-> obj.stats @@ [k \in {"loss"} |-> obj.loss],
              obj   |-> obj]

evaluate_batch(s, w, batch, stage, out) ==
    LET fwd == compute_forward(batch, stage, out)
        s1  == [s EXCEPT !.ops = fwd.ops]
        obj == compute_objectives(w, fwd.predictions, batch, stage, out)
        s2  == [s1 EXCEPT !.ops = @ \o obj.ops]
    IN  IF ~obj.ok THEN Raised(s2)
        ELSE [ok    |-> TRUE,
              m     |-> s2,
              stats |-> obj.stats @@ [k \in {"loss"} |-> obj.loss],
              obj   |-> obj]

\* ---------------------------------------------------------- the checkpointer

\* utils.checkpoints.ckpt_recency: the time the checkpoint was saved
ckpt_recency(c) == c.time

\* the checkpoint ranked first by key (a function on S); equal keys fall to
\* the more recent one
Top(S, key) ==
    CHOOSE c \in S : \A d \in S :
        key[d] < key[c] \/ (key[d] = key[c] /\ d.time <= c.time)

\* Checkpointer.save_checkpoint: a snapshot of every recoverable, with meta
save_checkpoint(s, meta) ==
    LET c == [time  |-> s.clock + 1,
              meta  |-> meta,
              state |-> [model |-> s.weights, optimizer |-> s.opt_steps,
                         scheduler |-> s.lr, counter |-> s.epoch]]
    IN  [s EXCEPT !.clock = @ + 1,
                  !.disk = @ \cup {c},
                  !.saved = @ \cup {c}]

\* Checkpointer.delete_checkpoints: keep the first by each importance key
delete_checkpoints(s, keys) ==
    [s EXCEPT !.disk = {Top(s.disk, keys[i]) : i \in DOMAIN keys}]

\* Checkpointer.recover_if_possible: load the first by key, if there is one
recover_if_possible(s, key) ==
    IF s.disk = {} THEN s
    ELSE LET c == Top(s.disk, key)
         IN  [s EXCEPT !.weights = c.state.model,
                       !.opt_steps = c.state.optimizer,
                       !.lr = c.state.scheduler,
                       !.epoch = c.state.counter,
                       !.loaded = {c}]

\* train_logger.summarize_error_rate over the per-batch statistics
RECURSIVE summarize_error_rate(_)
summarize_error_rate(stats) ==
    IF stats = <<>> THEN 0
    ELSE Head(stats) + summarize_error_rate(Tail(stats))

\* params.lr_annealing([optimizer], epoch, per): new_lr is the rule's answer
lr_annealing(s, epoch, per, new_lr) ==
    Did([s EXCEPT !.lr = new_lr],
        [op |-> "lr_annealing", epoch |-> epoch, per |-> per])

\* params.train_logger.log_stats(epoch_stats, train_stats, valid_stats)
log_stats(s, epoch_stats) ==
    Did(s, [op |-> "log_stats", epoch |-> epoch_stats.epoch,
            lr |-> epoch_stats.lr])

\* variant: the sign of the key dropped
epoch_end_key_unsigned(c) == c.meta.PER

\* lambda c: -c.meta["PER"], the second importance key of on_epoch_end
epoch_end_key(c) == 0 - c.meta.PER

importance_keys(S) ==
    <<[c \in S |-> ckpt_recency(c)], [c \in S |-> epoch_end_key(c)]>>

save_and_keep_only(s, meta) ==
    LET t == Did(save_checkpoint(s, meta),
                 [op |-> "save_and_keep_only", per |-> meta.PER])
    IN  delete_checkpoints(t, importance_keys(t.disk))

\* variant: the learning rate logged is the annealed one
on_epoch_end_logs_new_lr(s, epoch, valid_stats, new_lr) ==
    LET per    == summarize_error_rate(valid_stats["PER"])
        s0     == Did([s EXCEPT !.ops = <<>>],
                      [op |-> "summarize_error_rate", per |-> per])
        s1     == lr_annealing(s0, epoch, per, new_lr)
        s2     == log_stats(s1, [epoch |-> epoch, lr |-> new_lr])
    IN  [ok    |-> TRUE,
         m     |-> save_and_keep_only(s2, [PER |-> per]),
         stats |-> NoStats,
         obj   |-> [ok |-> FALSE]]

on_epoch_end(s, epoch, valid_stats, new_lr) ==
    LET per    == summarize_error_rate(valid_stats["PER"])
        s0     == Did([s EXCEPT !.ops = <<>>],
                      [op |-> "summarize_error_rate", per |-> per])
        old_lr == s0.lr
        s1     == lr_annealing(s0, epoch, per, new_lr)
        s2     == log_stats(s1, [epoch |-> epoch, lr |-> old_lr])
    IN  [ok    |-> TRUE,
         m     |-> save_and_keep_only(s2, [PER |-> per]),
         stats |-> NoStats,
         obj   |-> [ok |-> FALSE]]

\* variant: the restore before the test ranks by recency
best_key_recency(c) == c.time

\* lambda c: -c.meta["PER"], the key of the restore before the test
best_key(c) == 0 - c.meta.PER

recover_latest(s) == recover_if_possible(s, [c \in s.disk |-> ckpt_recency(c)])

recover_best(s) == recover_if_possible(s, [c \in s.disk |-> best_key(c)])

\* ------------------------------------------------------------ initial state

Fresh ==
    [weights |-> 0, grad |-> 0, opt_steps |-> 0, lr |-> 0, epoch |-> 0,
     clock |-> 0, disk |-> {}, saved |-> {}, loaded |-> {}, ops |-> <<>>]

PERs == 0..(Len(valid_set) * MaxErrs)

\* the state an earlier run of the script left after Len(pers) epochs whose
\* validation error rates were pers
RECURSIVE PriorRun(_)
PriorRun(pers) ==
    IF pers = <<>> THEN Fresh
    ELSE LET s == PriorRun(SubSeq(pers, 1, Len(pers) - 1))
             t == [s EXCEPT !.epoch = Len(pers),
                            !.weights = @ + Len(train_set),
                            !.opt_steps = @ + Len(train_set)]
         IN  on_epoch_end(t, t.epoch,
                          [k \in {"PER"} |-> <<pers[Len(pers)]>>], t.lr).m

\* a new process on the checkpoint directory of an earlier run
NewProcess(s) ==
    [Fresh EXCEPT !.clock = s.clock, !.disk = s.disk, !.saved = s.saved]

NoBatch == [width |-> 0]

NoOut == [errs |-> 0]

\* n counts the hook calls, n_fit those of fit_batch
NoCall ==
    [n |-> 0, n_fit |-> 0, hook |-> "none", stage |-> "none", batch |-> NoBatch,
     out |-> NoOut, ok |-> TRUE, stats |-> NoStats, obj |-> [ok |-> FALSE]]

Call(hook, stage, batch, out, res) ==
    [n |-> last.n + 1,
     n_fit |-> IF hook = "fit_batch" THEN last.n_fit + 1 ELSE last.n_fit,
     hook |-> hook, stage |-> stage, batch |-> batch,
     out |-> out, ok |-> res.ok, stats |-> res.stats, obj |-> res.obj]

Idle == [at |-> "idle", i |-> 0, valid_stats |-> <<>>]

\* --------------------------------------------------------------- the script

\* variant: the data prepared before the modules are assembled
ScriptOrderDataFirst ==
    <<"load_params", "create_experiment_directory", "prepare_timit",
      "loaders", "modules", "greedy_searcher", "beam_searcher",
      "checkpointer", "augmentation", "brain", "resume", "fit",
      "restore_best", "evaluate", "log_test", "report", "done">>

ScriptOrder ==
    <<"load_params", "create_experiment_directory", "modules",
      "greedy_searcher", "beam_searcher", "checkpointer", "prepare_timit",
      "loaders", "augmentation", "brain", "resume", "fit", "restore_best",
      "evaluate", "log_test", "report", "done">>

\* the statement after a statement of the script
after(step) ==
    LET i == CHOOSE j \in 1..Len(ScriptOrder) : ScriptOrder[j] = step
    IN  ScriptOrder[i + 1]

\* the phase of the run a statement belongs to
PhaseOf(step) ==
    CASE step \in {"load_params", "create_experiment_directory"}
            -> "configuration"
      [] step \in {"modules", "greedy_searcher", "beam_searcher"}
            -> "model_decoder_construction"
      [] step = "checkpointer" -> "checkpointer_construction"
      [] step \in {"prepare_timit", "loaders"} -> "data_preparation"
      [] step = "augmentation" -> "augmentation_module"
      [] step = "brain" -> "training_controller_construction"
      [] step = "resume" -> "resume"
      [] step = "fit" -> "training_loop"
      [] step = "restore_best" -> "restore_best"
      [] step \in {"evaluate", "log_test"} -> "test_evaluation"
      [] step = "report" -> "report"

Enter(log, phase) ==
    IF log # <<>> /\ log[Len(log)] = phase THEN log ELSE Append(log, phase)

SimpleSteps ==
    {"load_params", "create_experiment_directory", "modules",
     "greedy_searcher", "beam_searcher", "checkpointer", "prepare_timit",
     "loaders", "brain", "log_test", "report"}

Init ==
    /\ pc = ScriptOrder[1]
    /\ phases = <<>>
    /\ params \in [ctc_weight : {WScale \div 2}, augmentation : BOOLEAN,
                   epochs : {NumEpochs}]
    /\ \E k \in 0..MaxPrior : \E pers \in [1..k -> PERs] :
          m = NewProcess(PriorRun(pers))
    /\ loop = Idle
    /\ last = NoCall

\* a statement that changes none of the modelled state
Statement ==
    /\ pc \in SimpleSteps
    /\ pc' = after(pc)
    /\ phases' = Enter(phases, PhaseOf(pc))
    /\ UNCHANGED <<params, m, loop, last>>

\* if hasattr(params, "augmentation"): modules.append(params.augmentation)
Augmentation ==
    /\ pc = "augmentation"
    /\ pc' = after(pc)
    /\ phases' = IF params.augmentation THEN Enter(phases, PhaseOf(pc))
                 ELSE phases
    /\ UNCHANGED <<params, m, loop, last>>

\* checkpointer.recover_if_possible(), then asr_brain.fit is entered
Resume ==
    /\ pc = "resume"
    /\ pc' = after(pc)
    /\ phases' = Enter(phases, PhaseOf(pc))
    /\ m' = recover_latest(m)
    /\ loop' = [Idle EXCEPT !.at = "next_epoch"]
    /\ UNCHANGED <<params, last>>

\* Brain.fit: for epoch in epoch_counter
FitNextEpoch ==
    /\ pc = "fit" /\ loop.at = "next_epoch"
    /\ m.epoch < params.epochs
    /\ m' = [m EXCEPT !.epoch = @ + 1]
    /\ loop' = [at |-> "train", i |-> 1, valid_stats |-> <<>>]
    /\ phases' = Enter(phases, PhaseOf(pc))
    /\ UNCHANGED <<pc, params, last>>

FitReturn ==
    /\ pc = "fit" /\ loop.at = "next_epoch"
    /\ m.epoch >= params.epochs
    /\ pc' = after(pc)
    /\ phases' = Enter(phases, PhaseOf(pc))
    /\ loop' = Idle
    /\ UNCHANGED <<params, m, last>>

\* Brain.fit: for batch in train_set: self.fit_batch(batch)
FitTrainBatch ==
    /\ pc = "fit" /\ loop.at = "train"
    /\ \E out \in FiniteOuts :
          LET batch == train_set[loop.i]
              res   == fit_batch(m, params.ctc_weight, batch, out)
          IN  /\ m' = res.m
              /\ last' = Call("fit_batch", "train", batch, out, res)
              /\ pc' = IF res.ok THEN pc ELSE "aborted"
    /\ loop' = IF loop.i < Len(train_set) THEN [loop EXCEPT !.i = @ + 1]
               ELSE [loop EXCEPT !.at = "valid", !.i = 1]
    /\ UNCHANGED <<phases, params>>

\* Brain.fit: for batch in valid_set: self.evaluate_batch(batch, stage="valid")
FitValidBatch ==
    /\ pc = "fit" /\ loop.at = "valid"
    /\ \E out \in FiniteOuts :
          LET batch == valid_set[loop.i]
              res   == evaluate_batch(m, params.ctc_weight, batch, "valid", out)
          IN  /\ m' = res.m
              /\ last' = Call("evaluate_batch", "valid", batch, out, res)
              /\ pc' = IF res.ok THEN pc ELSE "aborted"
              /\ loop' = [at |-> IF loop.i < Len(valid_set) THEN "valid"
                                 ELSE "epoch_end",
                          i |-> loop.i + 1,
                          valid_stats |->
                              IF res.ok
                              THEN Append(loop.valid_stats, res.stats["PER"])
                              ELSE loop.valid_stats]
    /\ UNCHANGED <<phases, params>>

\* Brain.fit: self.on_epoch_end(epoch, train_stats, valid_stats)
FitEpochEnd ==
    /\ pc = "fit" /\ loop.at = "epoch_end"
    /\ \E new_lr \in {m.lr, m.lr + 1} :
          LET res == on_epoch_end(m, m.epoch,
                                  [k \in {"PER"} |-> loop.valid_stats], new_lr)
          IN  /\ m' = res.m
              /\ last' = Call("on_epoch_end", "none", NoBatch, NoOut, res)
    /\ loop' = [Idle EXCEPT !.at = "next_epoch"]
    /\ UNCHANGED <<pc, phases, params>>

\* checkpointer.recover_if_possible(lambda c: -c.meta["PER"])
RestoreBest ==
    /\ pc = "restore_best"
    /\ pc' = after(pc)
    /\ phases' = Enter(phases, PhaseOf(pc))
    /\ m' = recover_best(m)
    /\ loop' = [Idle EXCEPT !.at = "test", !.i = 1]
    /\ UNCHANGED <<params, last>>

\* Brain.evaluate: for batch in test_set: self.evaluate_batch(batch, stage="test")
EvaluateTestBatch ==
    /\ pc = "evaluate" /\ loop.at = "test"
    /\ \E out \in FiniteOuts :
          LET batch == test_set[loop.i]
              res   == evaluate_batch(m, params.ctc_weight, batch, "test", out)
          IN  /\ m' = res.m
              /\ last' = Call("evaluate_batch", "test", batch, out, res)
              /\ pc' = IF ~res.ok THEN "aborted"
                       ELSE IF loop.i < Len(test_set) THEN pc ELSE after(pc)
    /\ loop' = IF loop.i < Len(test_set) THEN [loop EXCEPT !.i = @ + 1]
               ELSE Idle
    /\ phases' = Enter(phases, PhaseOf(pc))
    /\ UNCHANGED params

Next ==
    \/ Statement
    \/ Augmentation
    \/ Resume
    \/ FitNextEpoch
    \/ FitTrainBatch
    \/ FitValidBatch
    \/ FitEpochEnd
    \/ FitReturn
    \/ RestoreBest
    \/ EvaluateTestBatch

Spec == Init /\ [][Next]_vars

\* ------------------------------------------------- the hooks, called freely

InitHooks ==
    /\ pc = "hooks"
    /\ phases = <<>>
    /\ params \in [ctc_weight : 0..WScale, augmentation : {FALSE},
                   epochs : {NumEpochs}]
    /\ m = Fresh
    /\ loop = Idle
    /\ last = NoCall

HookFitBatch ==
    /\ last.n < MaxCalls
    /\ \E i \in DOMAIN train_set : \E out \in FiniteOuts :
          LET res == fit_batch(m, params.ctc_weight, train_set[i], out)
          IN  /\ m' = res.m
              /\ last' = Call("fit_batch", "train", train_set[i], out, res)
    /\ UNCHANGED <<pc, phases, params, loop>>

HookEvaluateBatch ==
    /\ last.n < MaxCalls
    /\ \E i \in DOMAIN valid_set : \E stage \in StageTags :
       \E out \in FiniteOuts :
          LET res == evaluate_batch(m, params.ctc_weight, valid_set[i],
                                    stage, out)
          IN  /\ m' = res.m
              /\ last' = Call("evaluate_batch", stage, valid_set[i], out, res)
    /\ UNCHANGED <<pc, phases, params, loop>>

HookOnEpochEnd ==
    /\ last.n < MaxCalls
    /\ \E per \in PERs : \E new_lr \in {m.lr, m.lr + 1} :
          LET res == on_epoch_end(m, last.n + 1,
                                  [k \in {"PER"} |-> <<per>>], new_lr)
          IN  /\ m' = res.m
              /\ last' = Call("on_epoch_end", "none", NoBatch, NoOut, res)
    /\ UNCHANGED <<pc, phases, params, loop>>

NextHooks == HookFitBatch \/ HookEvaluateBatch \/ HookOnEpochEnd

SpecHooks == InitHooks /\ [][NextHooks]_vars

\* ------------------------------------- compute_objectives on any arguments

InitObjectives ==
    /\ pc = "objectives"
    /\ phases = <<>>
    /\ params \in [ctc_weight : 0..WScale, augmentation : {FALSE},
                   epochs : {NumEpochs}]
    /\ m = Fresh
    /\ loop = Idle
    /\ last = NoCall

\* compute_forward, then compute_objectives on its predictions
Objectives ==
    /\ last.n = 0
    /\ \E batch \in Batches : \E stage \in StageTags : \E out \in Outs :
          LET fwd == compute_forward(batch, stage, out)
              obj == compute_objectives(params.ctc_weight, fwd.predictions,
                                        batch, stage, out)
          IN  last' = [n |-> 1, n_fit |-> 0, hook |-> "compute_objectives",
                       stage |-> stage, batch |-> batch, out |-> out,
                       ok |-> obj.ok,
                       stats |-> IF obj.ok THEN obj.stats ELSE NoStats,
                       obj |-> obj]
    /\ UNCHANGED <<pc, phases, params, m, loop>>

NextObjectives == Objectives

SpecObjectives == InitObjectives /\ [][NextObjectives]_vars

\* ------------------------------------------------------------------ claims

OpNames(s) == [i \in DOMAIN s.ops |-> s.ops[i].op]

RanIn(s, name) == \E i \in DOMAIN s.ops : s.ops[i].op = name

Ran(name) == RanIn(m, name)

\* this step is a hook call
HookStep == last'.n # last.n

LowestPER(S) == {b \in S : \A c \in S : b.meta.PER <= c.meta.PER}

Latest(S) == CHOOSE c \in S : \A d \in S : d.time <= c.time

IsPrefix(a, b) == Len(a) <= Len(b) /\ a = SubSeq(b, 1, Len(a))

\* C1: after any sequence of on_epoch_end calls (those of an earlier run
\* included) the checkpoints on disk are exactly the most recently saved one
\* and one of lowest recorded PER among all that were ever saved; every
\* other checkpoint is gone, so at most two remain.
C1_Retention ==
    IF m.saved = {} THEN m.disk = {}
    ELSE \E b \in LowestPER(m.saved) : m.disk = {Latest(m.saved), b}

\* an epoch has ended, three checkpoints were saved, one was discarded, and
\* the best is not the latest
C1_Witness ==
    /\ last.hook = "on_epoch_end"
    /\ Cardinality(m.saved) >= 3
    /\ Cardinality(m.disk) = 2
    /\ Latest(m.saved) \notin LowestPER(m.saved)

AfterRestore == pc \in {"evaluate", "log_test", "report", "done"}

\* C2: once the training loop has ended, the checkpoint restored before the
\* test evaluation is one of lowest PER among all checkpoints on_epoch_end
\* saved, the weights evaluated are its weights, and no test batch is
\* evaluated before that restore.
C2_TestOnBest ==
    /\ (AfterRestore /\ m.saved # {}) =>
          \E b \in LowestPER(m.saved) :
              /\ m.loaded = {b}
              /\ m.weights = b.state.model
    /\ last.stage = "test" => AfterRestore

\* the test ran on a best checkpoint that is not the last epoch's
C2_Witness ==
    /\ pc = "done"
    /\ last.stage = "test"
    /\ Cardinality(m.saved) >= 2
    /\ m.loaded # {Latest(m.saved)}
    /\ m.loaded # {}

\* C3: the stage tag decides the decoder: in stage train no searcher runs and
\* no PER statistics on hypotheses come back, in stage valid only the greedy
\* searcher runs, in stage test only the beam searcher; and the optimizer
\* steps only in a fit_batch call, whose stage is train.
C3_StageDecides ==
    [][/\ HookStep =>
            /\ last'.stage = "train" =>
                  /\ ~RanIn(m', "greedy_searcher")
                  /\ ~RanIn(m', "beam_searcher")
                  /\ "PER" \notin DOMAIN last'.stats
            /\ last'.stage = "valid" =>
                  /\ RanIn(m', "greedy_searcher")
                  /\ ~RanIn(m', "beam_searcher")
            /\ last'.stage = "test" =>
                  /\ RanIn(m', "beam_searcher")
                  /\ ~RanIn(m', "greedy_searcher")
       /\ m'.opt_steps # m.opt_steps =>
            /\ HookStep
            /\ last'.hook = "fit_batch"
            /\ last'.stage = "train"]_vars

\* a validation batch was decoded greedily after the optimizer had stepped
C3_Witness ==
    /\ last.hook = "evaluate_batch"
    /\ last.stage = "valid"
    /\ Ran("greedy_searcher")
    /\ m.opt_steps > 0

\* C5: a fit_batch call does forward, loss, backward, optimizer step and
\* gradient reset, in this order and once each; between hook calls the
\* accumulated gradient is zero and the optimizer has stepped once per batch
\* fitted, each step applying one batch's gradient.
C5_FitBatchOrder ==
    /\ last.hook = "fit_batch" =>
          OpNames(m) = <<"forward", "objectives", "backward",
                         "optimizer.step", "zero_grad">>
    /\ m.grad = 0
    /\ m.opt_steps = last.n_fit
    /\ m.weights = last.n_fit

\* a second batch has been fitted
C5_Witness ==
    /\ last.hook = "fit_batch"
    /\ last.n_fit >= 2
    /\ m.opt_steps = 2

\* C6: an evaluate_batch call, whatever its stage tag, calls neither
\* backward nor optimizer.step nor zero_grad and leaves the weights, the
\* gradients, the optimizer, the learning rate, the epoch counter and the
\* checkpoints as they were.
C6_EvaluateFrame ==
    [][(HookStep /\ last'.hook = "evaluate_batch") =>
            /\ ~RanIn(m', "backward")
            /\ ~RanIn(m', "optimizer.step")
            /\ ~RanIn(m', "zero_grad")
            /\ [m' EXCEPT !.ops = m.ops] = m]_vars

\* a batch was evaluated with a trained model and a checkpoint on disk
C6_Witness ==
    /\ last.hook = "evaluate_batch"
    /\ last.ok
    /\ m.opt_steps > 0
    /\ m.disk # {}

Returned == last.hook = "compute_objectives" /\ last.ok

IsFin(x) == x.kind = "fin"

\* the weighted sum of two finite losses, in units of 1 / WScale
FiniteSum ==
    (IsFin(last.out.loss_ctc) /\ IsFin(last.out.loss_seq)) =>
        last.obj.loss = Fin(params.ctc_weight * last.out.loss_ctc.v
                            + (WScale - params.ctc_weight)
                              * last.out.loss_seq.v)

\* C7 as stated: the loss is the weighted sum; with ctc_weight = 1 it is the
\* CTC loss whatever the sequence loss is, with ctc_weight = 0 the sequence
\* loss whatever the CTC loss is.
C7_WhateverTheOtherLoss ==
    Returned =>
        /\ FiniteSum
        /\ params.ctc_weight = WScale =>
              last.obj.loss = FMul(WScale, last.out.loss_ctc)
        /\ params.ctc_weight = 0 =>
              last.obj.loss = FMul(WScale, last.out.loss_seq)

\* C7, amended: the loss is the weighted sum for every stage; with
\* ctc_weight = 1 it is the CTC loss whenever the sequence loss is finite,
\* with ctc_weight = 0 the sequence loss whenever the CTC loss is finite.
C7_WeightedLoss ==
    Returned =>
        /\ FiniteSum
        /\ (params.ctc_weight = WScale /\ IsFin(last.out.loss_seq)) =>
              last.obj.loss = FMul(WScale, last.out.loss_ctc)
        /\ (params.ctc_weight = 0 /\ IsFin(last.out.loss_ctc)) =>
              last.obj.loss = FMul(WScale, last.out.loss_seq)

\* with ctc_weight = 1 a sequence loss of 1 left the loss at the CTC loss, 0
C7_Witness ==
    /\ Returned
    /\ params.ctc_weight = WScale
    /\ last.out.loss_ctc = Fin(0)
    /\ last.out.loss_seq = Fin(1)
    /\ last.obj.loss = Fin(0)

\* C8: for every label sequence of length n in a batch of width L, the
\* relative length handed to seq_cost, taken back to an absolute length
\* against the L + 1 columns of the eos-appended tensor, is n + 1, and it
\* never exceeds 1.
C8_EosLength ==
    Returned =>
        \A i \in DOMAIN last.batch.phn_lens :
            LET n   == last.batch.phn_lens[i].num
                rel == last.obj.length[i]
                W   == Len(last.obj.phns_with_eos[i])
            IN  /\ W = last.batch.width + 1
                /\ RoundDiv(rel.num * W, rel.den) = n + 1
                /\ rel.num <= rel.den

EpochEndStep == HookStep /\ last'.hook = "on_epoch_end"

\* C9: an on_epoch_end call aggregates the validation PER, anneals the
\* learning rate on that PER, logs the epoch with the learning rate in
\* effect before the annealing, then saves one checkpoint whose PER is the
\* value the annealing rule was given; nothing else in the run saves one.
C9_EpochEnd ==
    [][/\ EpochEndStep =>
            LET per == summarize_error_rate(loop.valid_stats)
            IN  /\ m'.ops =
                      <<[op |-> "summarize_error_rate", per |-> per],
                        [op |-> "lr_annealing", epoch |-> m.epoch,
                         per |-> per],
                        [op |-> "log_stats", epoch |-> m.epoch, lr |-> m.lr],
                        [op |-> "save_and_keep_only", per |-> per]>>
                /\ \E c \in m'.saved \ m.saved :
                      /\ m'.saved = m.saved \cup {c}
                      /\ c.meta.PER = per
       /\ m'.saved # m.saved => EpochEndStep]_vars

\* an epoch ended with errors on the validation set and an annealed rate,
\* logged with the rate before the annealing
C9_Witness ==
    /\ last.hook = "on_epoch_end"
    /\ m.ops[1].per > 0
    /\ m.ops[3].lr # m.lr

\* C10: for the stages train, valid and test the two functions agree on the
\* predictions: a searcher ran if and only if the stage is valid or test,
\* PER statistics come back if and only if the stage is not train, and the
\* hook returns; for any other stage tag evaluate_batch raises in
\* compute_objectives, after the forward pass, and returns no statistics.
C10_StageShapes ==
    last.hook \in {"fit_batch", "evaluate_batch"} =>
        IF last.stage \in Stages
        THEN /\ last.ok
             /\ (Ran("greedy_searcher") \/ Ran("beam_searcher"))
                    <=> last.stage \in {"valid", "test"}
             /\ "PER" \in DOMAIN last.stats <=> last.stage # "train"
             /\ "loss" \in DOMAIN last.stats
        ELSE /\ ~last.ok
             /\ last.stats = NoStats
             /\ OpNames(m) = <<"forward">>

\* evaluate_batch was called with a stage tag outside the three and raised
C10_Witness ==
    /\ last.hook = "evaluate_batch"
    /\ last.stage \notin Stages
    /\ ~last.ok

ClaimedOrder ==
    <<"configuration", "data_preparation", "model_decoder_construction",
      "checkpointer_construction", "training_controller_construction",
      "resume", "training_loop", "restore_best", "test_evaluation", "report">>

CodeOrder(augmentation) ==
    <<"configuration", "model_decoder_construction",
      "checkpointer_construction", "data_preparation">>
    \o (IF augmentation THEN <<"augmentation_module">> ELSE <<>>)
    \o <<"training_controller_construction", "resume", "training_loop",
         "restore_best", "test_evaluation", "report">>

NotAugmentation(phase) == phase # "augmentation_module"

\* C4 as stated: the phases run in the order configuration, data
\* preparation, model and decoder construction, checkpointer construction,
\* training-controller construction, resume, training loop, restore of the
\* best checkpoint, test evaluation, report.
C4_ClaimedOrder == IsPrefix(SelectSeq(phases, NotAugmentation), ClaimedOrder)

\* C4, amended: the phases run, each completing before the next begins, in
\* the order configuration, model and decoder construction, checkpointer
\* construction, data preparation, (a configured augmentation joining the
\* module list,) training-controller construction, resume, training loop,
\* restore of the best checkpoint, test evaluation, report.
C4_PhaseOrder ==
    /\ IsPrefix(phases, CodeOrder(params.augmentation))
    /\ pc = "done" => phases = CodeOrder(params.augmentation)

\* a run with an augmentation reached its end
C4_Witness ==
    /\ pc = "done"
    /\ params.augmentation
    /\ Len(phases) = 11

====
